---- MODULE Spec2Model ----
(***************************************************************************)
(* A model of the face gallery store (face_db.py, class FaceDB) and of the *)
(* recogniser (recognizer.py, class FaceRecognizer).                       *)
(*                                                                         *)
(* A file stem is a sequence: <<"alice">> is the string "alice" and        *)
(* <<"alice", 1>> is "alice_1", so the formatting f"{stem}_{idx}" is       *)
(* Append(stem, idx).                                                      *)
(* An embedding is an integer: a one-dimensional vector, whose Euclidean   *)
(* distance to another is the absolute difference.  Distances and          *)
(* tolerances are counted in tenths (6 is 0.6).                            *)
(* Every directory entry is a regular file, an artifact carries the        *)
(* extension .npy in lower case, as np.save writes it, and writing an      *)
(* artifact does not fail.                                                 *)
(***************************************************************************)
EXTENDS Integers, Sequences, FiniteSets, TLC

VARIABLES
    files,            \* faces_dir: file name -> content
    pickleFile,       \* encoding_file, the legacy combined gallery
    encodings,        \* FaceDB.encodings, a dict in insertion order
    op,               \* the operation that ran last
    ret,              \* what it returned or raised
    arg,              \* its arguments
    writes,           \* the _save_npy calls it made: [name, stem] each
    ensure_calls,     \* ensure_encodings_from_folder calls in a row, up to 2
    added,            \* the count ensure_encodings_from_folder returned last
    usedLegacy,       \* whether the last _load read encoding_file
    tolerance,        \* FaceRecognizer.tolerance
    known_names,      \* match's inputs and what it computed
    known_encodings,
    query,
    matches,
    m_name,
    m_dist,
    face_locations,   \* compute_encodings' input and what it computed
    primary,
    fallback_called,
    result

storeVars == <<files, pickleFile, encodings, writes, added, usedLegacy, ensure_calls>>
matchVars == <<tolerance, known_names, known_encodings, query, matches, m_name, m_dist>>
encVars == <<face_locations, primary, fallback_called, result>>
vars == <<storeVars, matchVars, encVars, op, arg, ret>>

----------------------------------------------------------------------------
(* Bounds *)

MaxFiles == 3        \* adds stop when faces_dir holds this many files
MaxInitFiles == 2    \* files in the directory when the store is constructed
MaxCoord == 8        \* embeddings given to match are 0..MaxCoord
MaxGallery == 2      \* entries in the gallery given to match
MaxFaces == 3        \* regions given to compute_encodings
ImageSize == 2       \* height and width of the image given to compute_encodings

----------------------------------------------------------------------------
(* The file system *)

Suffix(stem, idx) == Append(stem, idx)

NpyFile(stem) == [stem |-> stem, ext |-> ".npy"]

Lower(ext) == IF ext = ".PNG" THEN ".png" ELSE ext

ImageExts == {".jpg", ".jpeg", ".png", ".bmp"}

NpyContent(e) == [kind |-> "npy", data |-> e]
Corrupt == [kind |-> "corrupt", data |-> 0]
Image(encs) == [kind |-> "image", encs |-> encs]
Unreadable == [kind |-> "unreadable", encs |-> <<>>]

\* np.load: the array, or an exception
NpLoads(content) == content.kind = "npy"

\* Files outside faces_dir that a caller may name
External ==
    [f \in {[stem |-> <<"bob">>, ext |-> ".jpg"],
            [stem |-> <<"carol">>, ext |-> ".jpg"]} |->
        IF f.stem = <<"bob">> THEN Image(<<2, 1>>) ELSE Image(<<>>)]

InDir(f) == [dir |-> "faces", name |-> f]
Outside(f) == [dir |-> "ext", name |-> f]

PathExists(fs, path) ==
    IF path.dir = "faces" THEN path.name \in DOMAIN fs ELSE path.name \in DOMAIN External

ReadPath(fs, path) ==
    IF path.dir = "faces" THEN fs[path.name] ELSE External[path.name]

RECURSIVE Listings(_)
Listings(S) ==
    IF S = {} THEN {<<>>}
    ELSE UNION {{<<x>> \o p : p \in Listings(S \ {x})} : x \in S}

RECURSIVE SomeOrder(_)
SomeOrder(S) ==
    IF S = {} THEN <<>>
    ELSE LET x == CHOOSE y \in S : TRUE IN <<x>> \o SomeOrder(S \ {x})

\* os.listdir(faces_dir) for a loop that does nothing for an entry whose
\* lower-cased extension is outside exts: the entries with an extension in
\* exts in any order, then the others.  A listing that interleaves the others
\* gives the loop the same run.
ListDir(fs, exts) ==
    {p \o SomeOrder({f \in DOMAIN fs : Lower(f.ext) \notin exts}) :
        p \in Listings({f \in DOMAIN fs : Lower(f.ext) \in exts})}

----------------------------------------------------------------------------
(* The dict FaceDB.encodings: a sequence of [name, encs] in insertion order *)

HasKey(d, k) == \E i \in 1..Len(d) : d[i].name = k

Get(d, k) == IF HasKey(d, k) THEN d[CHOOSE i \in 1..Len(d) : d[i].name = k].encs ELSE <<>>

\* The slip d[k] = [v]
SetDefaultReplace(d, k, v) ==
    IF HasKey(d, k)
    THEN [i \in 1..Len(d) |-> IF d[i].name = k THEN [d[i] EXCEPT !.encs = <<v>>] ELSE d[i]]
    ELSE Append(d, [name |-> k, encs |-> <<v>>])

\* d.setdefault(k, []).append(v)
SetDefaultAppend(d, k, v) ==
    IF HasKey(d, k)
    THEN [i \in 1..Len(d) |-> IF d[i].name = k THEN [d[i] EXCEPT !.encs = Append(@, v)] ELSE d[i]]
    ELSE Append(d, [name |-> k, encs |-> <<v>>])

Absent == [state |-> "absent", data |-> <<>>]
CorruptPickle == [state |-> "corrupt", data |-> <<>>]
Pickled(d) == [state |-> "ok", data |-> d]

----------------------------------------------------------------------------
(* FaceDB._load *)

RECURSIVE LoadNpy(_, _, _)
LoadNpy(fs, listing, d) ==
    IF listing = <<>> THEN d
    ELSE LET fn == Head(listing)
         IN LoadNpy(fs, Tail(listing),
                IF Lower(fn.ext) = ".npy" /\ NpLoads(fs[fn])
                THEN SetDefaultAppend(d, fn.stem, fs[fn].data)
                ELSE d)

LegacyCond(d, pk) == d = <<>> /\ pk.state # "absent"

LoadLegacy(pk) == IF pk.state = "ok" THEN pk.data ELSE <<>>

Load(fs, listing, pk) ==
    LET d == LoadNpy(fs, listing, <<>>)
    IN IF LegacyCond(d, pk) THEN LoadLegacy(pk) ELSE d

----------------------------------------------------------------------------
(* FaceDB._save_pickle, with the outcome of the write *)

PickleOutcomes == {"ok", "open_fails"}

SavePickle(pk, d, outcome) ==
    IF outcome = "ok" THEN Pickled(d) ELSE pk

----------------------------------------------------------------------------
(* FaceDB._save_npy *)

RECURSIVE NextFree(_, _, _)
NextFree(fs, stem, idx) ==
    IF NpyFile(Suffix(stem, idx)) \notin DOMAIN fs
    THEN Suffix(stem, idx)
    ELSE NextFree(fs, stem, idx + 1)

\* The slip of saving to <stem>.npy whether or not it exists
SaveNpyStemOverwrite(fs, stem) == stem

SaveNpyStem(fs, stem) ==
    IF NpyFile(stem) \notin DOMAIN fs THEN stem ELSE NextFree(fs, stem, 1)

WriteFile(fs, f, content) ==
    [g \in DOMAIN fs \cup {f} |-> IF g = f THEN content ELSE fs[g]]

SaveNpy(fs, stem, encoding) ==
    WriteFile(fs, NpyFile(SaveNpyStem(fs, stem)), NpyContent(encoding))

----------------------------------------------------------------------------
(* FaceDB.add_face_from_image, as a function of the store's state *)

StoreState(fs, d, pk, ws, r) ==
    [files |-> fs, encodings |-> d, pickleFile |-> pk, writes |-> ws, ret |-> r]

\* The slip encs[-1]
LastEncoding(encs) == encs[Len(encs)]

FirstEncoding(encs) == encs[1]

AddFaceFromImageOp(st, name, path, outcome) ==
    IF ~PathExists(st.files, path)
    THEN [st EXCEPT !.ret = "FileNotFoundError"]
    ELSE LET image == ReadPath(st.files, path)
         IN IF image.kind # "image"
            THEN [st EXCEPT !.ret = "Exception"]
            ELSE IF image.encs = <<>>
            THEN [st EXCEPT !.ret = "False"]
            ELSE LET encoding == FirstEncoding(image.encs)
                     d == SetDefaultAppend(st.encodings, name, encoding)
                 IN StoreState(SaveNpy(st.files, name, encoding), d,
                               SavePickle(st.pickleFile, d, outcome),
                               Append(st.writes,
                                      [name |-> name, stem |-> SaveNpyStem(st.files, name)]),
                               "True")

Current == StoreState(files, encodings, pickleFile, <<>>, "None")

----------------------------------------------------------------------------
(* FaceDB.ensure_encodings_from_folder *)

\* The slip of leaving out the check for <stem>.npy
EnsureSkipsByExtension(fs, fn) == Lower(fn.ext) \notin ImageExts

EnsureSkips(fs, fn) ==
    \/ Lower(fn.ext) \notin ImageExts
    \/ NpyFile(fn.stem) \in DOMAIN fs

RECURSIVE EnsureLoop(_, _, _, _)
EnsureLoop(st, n, listing, outcome) ==
    IF listing = <<>> THEN [st |-> st, added |-> n]
    ELSE LET fn == Head(listing)
             r == AddFaceFromImageOp(st, fn.stem, InDir(fn), outcome)
         IN IF EnsureSkips(st.files, fn)
            THEN EnsureLoop(st, n, Tail(listing), outcome)
            ELSE EnsureLoop(r, IF r.ret = "True" THEN n + 1 ELSE n,
                            Tail(listing), outcome)

----------------------------------------------------------------------------
(* FaceDB.get_all_encodings *)

RECURSIVE FlatNames(_)
FlatNames(d) ==
    IF d = <<>> THEN <<>>
    ELSE [i \in 1..Len(Head(d).encs) |-> Head(d).name] \o FlatNames(Tail(d))

RECURSIVE FlatEncs(_)
FlatEncs(d) == IF d = <<>> THEN <<>> ELSE Head(d).encs \o FlatEncs(Tail(d))

ListKnown(d) == [i \in 1..Len(d) |-> d[i].name]

----------------------------------------------------------------------------
(* FaceRecognizer.match *)

DefaultTolerance == 6        \* tolerance: float = 0.6
CompareFacesTolerance == 6   \* compare_faces is called without a tolerance: its default, 0.6
SentinelDistance == 10       \* 1.0

NotRecognized == <<"Not recognized">>

Abs(x) == IF x < 0 THEN -x ELSE x

\* face_recognition.face_distance: the Euclidean distance to each known encoding
FaceDistance(known, encoding) == [i \in 1..Len(known) |-> Abs(known[i] - encoding)]

\* face_recognition.compare_faces(known_encodings, encoding)
CompareFaces(known, encoding) ==
    [i \in 1..Len(known) |-> FaceDistance(known, encoding)[i] <= CompareFacesTolerance]

\* The slip of keeping the last of equal minima
RECURSIVE ArgMinLastFrom(_, _, _)
ArgMinLastFrom(ds, i, best) ==
    IF i > Len(ds) THEN best
    ELSE ArgMinLastFrom(ds, i + 1, IF ds[i] <= ds[best] THEN i ELSE best)

ArgMinLast(ds) == ArgMinLastFrom(ds, 2, 1)

\* np.argmin: the first index of the least element
RECURSIVE ArgMinFrom(_, _, _)
ArgMinFrom(ds, i, best) ==
    IF i > Len(ds) THEN best
    ELSE ArgMinFrom(ds, i + 1, IF ds[i] < ds[best] THEN i ELSE best)

ArgMin(ds) == ArgMinFrom(ds, 2, 1)

MatchOp(tol, encoding, names, known) ==
    IF known = <<>>
    THEN [name |-> NotRecognized, dist |-> SentinelDistance, matches |-> <<>>]
    ELSE LET ms == CompareFaces(known, encoding)
             distances == FaceDistance(known, encoding)
             best_idx == ArgMin(distances)
             best_distance == distances[best_idx]
         IN IF ms # <<>> /\ ms[best_idx] /\ best_distance <= tol
            THEN [name |-> names[best_idx], dist |-> best_distance, matches |-> ms]
            ELSE [name |-> NotRecognized, dist |-> best_distance, matches |-> ms]

----------------------------------------------------------------------------
(* FaceRecognizer.compute_encodings *)

None == [by |-> "none", at |-> <<>>]

\* What the dlib path and the face_recognition wrapper return for a region
DlibEncoding(rect) == [by |-> "dlib", at |-> rect]
WrapperEncoding(loc) == [by |-> "face_recognition", at |-> loc]

Max2(a, b) == IF a > b THEN a ELSE b
Min2(a, b) == IF a < b THEN a ELSE b

\* A location is (top, right, bottom, left); clipped to an h by w image
Clip(loc, h, w) ==
    [top |-> Max2(0, loc[1]), right |-> Min2(w, loc[2]),
     bottom |-> Min2(h, loc[3]), left |-> Max2(0, loc[4])]

Collapsed(c) == c.bottom <= c.top \/ c.right <= c.left

\* The dlib path: models_ok is whether _ensure_models and the rectangle
\* constructor return, fails the locations whose landmark or descriptor call raises
PrimaryPath(locs, h, w, models_ok, fails) ==
    IF locs = <<>> THEN <<>>
    ELSE IF ~models_ok THEN [i \in 1..Len(locs) |-> None]
    ELSE [i \in 1..Len(locs) |->
            LET c == Clip(locs[i], h, w)
            IN IF Collapsed(c) \/ i \in fails THEN None
               ELSE DlibEncoding(<<c.left, c.top, c.right, c.bottom>>)]

\* The slip of falling back when some region has no encoding
FallbackCondAny(encs) == encs = <<>> \/ \E i \in 1..Len(encs) : encs[i] = None

FallbackCond(encs) == encs = <<>> \/ \A i \in 1..Len(encs) : encs[i] = None

FallbackPath(locs, wrapper_ok) ==
    IF wrapper_ok THEN [i \in 1..Len(locs) |-> WrapperEncoding(locs[i])]
    ELSE [i \in 1..Len(locs) |-> None]

ComputeEncodingsOp(locs, h, w, models_ok, fails, wrapper_ok) ==
    LET first == PrimaryPath(locs, h, w, models_ok, fails)
    IN [primary |-> first,
        fallback_called |-> FallbackCond(first),
        result |-> IF FallbackCond(first) THEN FallbackPath(locs, wrapper_ok) ELSE first]

----------------------------------------------------------------------------
(* The directories and legacy files the store may be constructed over *)

\* The files a directory may hold when the store is constructed over it
InitFiles ==
    [f \in {NpyFile(<<"alice">>), NpyFile(<<"alice", 2>>), NpyFile(<<"bob">>),
            [stem |-> <<"alice">>, ext |-> ".jpg"],
            [stem |-> <<"alice">>, ext |-> ".PNG"],
            [stem |-> <<"bob">>, ext |-> ".jpg"],
            [stem |-> <<"bob">>, ext |-> ".bmp"],
            [stem |-> <<"bob">>, ext |-> ".txt"]} |->
        CASE f.ext = ".npy" -> IF f.stem = <<"bob">> THEN Corrupt ELSE NpyContent(1)
          [] f.ext = ".PNG" -> Image(<<2, 1>>)
          [] f.ext = ".bmp" -> Unreadable
          [] f.ext = ".txt" -> Image(<<1>>)
          [] f.stem = <<"alice">> -> Image(<<1>>)
          [] OTHER -> Image(<<>>)]

InitDirs ==
    {[f \in D |-> InitFiles[f]] :
        D \in {E \in SUBSET DOMAIN InitFiles : Cardinality(E) <= MaxInitFiles}}

InitPickles == {Absent, CorruptPickle, Pickled(<<[name |-> <<"alice">>, encs |-> <<1>>]>>)}

AddNames == {<<"alice">>}

Paths(fs) ==
    {InDir(f) : f \in {g \in DOMAIN fs : Lower(g.ext) \in ImageExts}}
    \cup {Outside(f) : f \in DOMAIN External}
    \cup {Outside([stem |-> <<"dave">>, ext |-> ".jpg"])}

----------------------------------------------------------------------------
(* The store's operations *)

NoArg == [name |-> <<>>, path |-> Outside([stem |-> <<>>, ext |-> ""])]

MatchIdle ==
    /\ tolerance = DefaultTolerance
    /\ known_names = <<>>
    /\ known_encodings = <<>>
    /\ query = 0
    /\ matches = <<>>
    /\ m_name = <<>>
    /\ m_dist = 0

EncIdle ==
    /\ face_locations = <<>>
    /\ primary = <<>>
    /\ fallback_called = FALSE
    /\ result = <<>>

\* FaceDB.__init__: the constructor loads the directory
Construct(fs, pk) ==
    \E listing \in ListDir(fs, {".npy"}) :
        /\ encodings' = Load(fs, listing, pk)
        /\ usedLegacy' = LegacyCond(LoadNpy(fs, listing, <<>>), pk)

InitStore ==
    /\ files \in InitDirs
    /\ pickleFile \in InitPickles
    /\ \E listing \in ListDir(files, {".npy"}) :
        /\ encodings = Load(files, listing, pickleFile)
        /\ usedLegacy = LegacyCond(LoadNpy(files, listing, <<>>), pickleFile)
    /\ op = "load"
    /\ arg = NoArg
    /\ ret = "None"
    /\ writes = <<>>
    /\ added = 0
    /\ ensure_calls = 0
    /\ MatchIdle
    /\ EncIdle

\* A restart: a new FaceDB over the same directory
Restart ==
    /\ Construct(files, pickleFile)
    /\ op' = "load"
    /\ arg' = NoArg
    /\ ret' = "None"
    /\ writes' = <<>>
    /\ added' = 0
    /\ ensure_calls' = 0
    /\ UNCHANGED <<files, pickleFile, matchVars, encVars>>

Becomes(st) ==
    /\ files' = st.files
    /\ encodings' = st.encodings
    /\ pickleFile' = st.pickleFile
    /\ writes' = st.writes
    /\ ret' = st.ret

AddFaceFromImage ==
    /\ Cardinality(DOMAIN files) < MaxFiles
    /\ \E name \in AddNames, path \in Paths(files), outcome \in PickleOutcomes :
        /\ Becomes(AddFaceFromImageOp(Current, name, path, outcome))
        /\ arg' = [name |-> name, path |-> path]
    /\ op' = "add_face_from_image"
    /\ added' = 0
    /\ ensure_calls' = 0
    /\ UNCHANGED <<usedLegacy, matchVars, encVars>>

AddFaceFileByFilenameOp(st, path, outcome) ==
    IF ~PathExists(st.files, path) THEN [st EXCEPT !.ret = "False"]
    ELSE IF NpyFile(path.name.stem) \in DOMAIN st.files THEN [st EXCEPT !.ret = "False"]
    ELSE AddFaceFromImageOp(st, path.name.stem, path, outcome)

AddFaceFileByFilename ==
    /\ Cardinality(DOMAIN files) < MaxFiles
    /\ \E path \in Paths(files), outcome \in PickleOutcomes :
        /\ Becomes(AddFaceFileByFilenameOp(Current, path, outcome))
        /\ arg' = [name |-> path.name.stem, path |-> path]
    /\ op' = "add_face_file_by_filename"
    /\ added' = 0
    /\ ensure_calls' = 0
    /\ UNCHANGED <<usedLegacy, matchVars, encVars>>

EnsureEncodingsFromFolder ==
    /\ \E listing \in ListDir(files, ImageExts), outcome \in PickleOutcomes :
        LET r == EnsureLoop(Current, 0, listing, outcome)
        IN /\ Becomes([r.st EXCEPT !.ret = "None"])
           /\ added' = r.added
    /\ op' = "ensure_encodings_from_folder"
    /\ arg' = NoArg
    /\ ensure_calls' = IF ensure_calls < 2 THEN ensure_calls + 1 ELSE 2
    /\ UNCHANGED <<usedLegacy, matchVars, encVars>>

NextStore ==
    \/ Restart
    \/ AddFaceFromImage
    \/ AddFaceFileByFilename
    \/ EnsureEncodingsFromFolder

SpecStore == InitStore /\ [][NextStore]_vars

----------------------------------------------------------------------------
(* Properties of the store *)

Artifacts(fs) == {f \in DOMAIN fs : Lower(f.ext) = ".npy"}

Loadable(fs) == {f \in Artifacts(fs) : NpLoads(fs[f])}

Count(seq, e) == Cardinality({i \in 1..Len(seq) : seq[i] = e})

Range(seq) == {seq[i] : i \in 1..Len(seq)}

\* As many embeddings of each value in memory as loadable artifacts hold
InSync(d, fs) ==
    \A e \in Range(FlatEncs(d)) \cup {fs[f].data : f \in Loadable(fs)} :
        Count(FlatEncs(d), e) = Cardinality({f \in Loadable(fs) : fs[f].data = e})

\* The gallery as a set: how often each name holds each embedding
GalleryOf(d) ==
    UNION {{<<d[i].name, e, Count(d[i].encs, e)>> : e \in Range(d[i].encs)} : i \in 1..Len(d)}

AddOps == {"add_face_from_image", "add_face_file_by_filename"}

\* The stem the naming rule asks for: <name> when free, else <name>_<k>, k the least free
ExpectedStem(fs, name) ==
    IF NpyFile(name) \notin DOMAIN fs THEN name
    ELSE Suffix(name, CHOOSE k \in 1..(Cardinality(DOMAIN fs) + 1) :
                    /\ NpyFile(Suffix(name, k)) \notin DOMAIN fs
                    /\ \A j \in 1..(k - 1) : NpyFile(Suffix(name, j)) \in DOMAIN fs)

\* C1: after every completed operation of the store, the embeddings in memory
\* and the loadable artifacts of the directory correspond one to one.
C1_GalleryMatchesArtifacts == InSync(encodings, files)

\* C2: once a name holds more than one embedding (its later artifacts carry
\* the suffix _<k>), a restart loads the gallery that was in memory before it.
C2_RestartKeepsGallery ==
    [][(/\ op' = "load"
        /\ InSync(encodings, files)
        /\ \E i \in 1..Len(encodings) : Len(encodings[i].encs) >= 2)
       => GalleryOf(encodings') = GalleryOf(encodings)]_vars

\* C3: a successful add writes <name>.npy when that file is free and otherwise
\* <name>_<k>.npy for the least k >= 1 that is free, and no operation changes
\* or removes a file that was there before it.
C3_SaveNpyNeverOverwrites ==
    [][/\ \A f \in DOMAIN files : f \in DOMAIN files' /\ files'[f] = files[f]
       /\ (op' \in AddOps /\ ret' = "True") =>
            /\ Len(writes') = 1
            /\ writes'[1].name = arg'.name
            /\ writes'[1].stem = ExpectedStem(files, arg'.name)
            /\ NpyFile(writes'[1].stem) \in DOMAIN files']_vars

C3_Witness ==
    /\ op = "add_face_from_image"
    /\ ret = "True"
    /\ writes = <<[name |-> <<"alice">>, stem |-> <<"alice", 2>>]>>
    /\ {NpyFile(<<"alice">>), NpyFile(<<"alice", 1>>)} \subseteq DOMAIN files

\* C4: a successful add creates exactly one new artifact, holding the enrolled
\* embedding, and exactly one more entry in memory, appended under the given
\* name; get_all_encodings returns names and embeddings of equal length that
\* pair the name with the embedding.
C4_AddCreatesOneEntry ==
    [][/\ Len(FlatNames(encodings')) = Len(FlatEncs(encodings'))
       /\ (op' \in AddOps /\ ret' = "True") =>
            LET new == NpyFile(writes'[1].stem)
                e == files'[new].data
            IN /\ DOMAIN files' \ DOMAIN files = {new}
               /\ NpLoads(files'[new])
               /\ Get(encodings', arg'.name) = Append(Get(encodings, arg'.name), e)
               /\ Len(FlatEncs(encodings')) = Len(FlatEncs(encodings)) + 1
               /\ \A i \in 1..Len(encodings) :
                    encodings[i].name # arg'.name =>
                        Get(encodings', encodings[i].name) = encodings[i].encs
               /\ \E i \in 1..Len(FlatNames(encodings')) :
                    /\ FlatNames(encodings')[i] = arg'.name
                    /\ FlatEncs(encodings')[i] = e]_vars

C4_Witness ==
    /\ op = "add_face_from_image"
    /\ ret = "True"
    /\ arg.name = <<"alice">>
    /\ Get(encodings, <<"alice">>) = <<1, 2>>
    /\ FlatNames(encodings) = <<<<"alice">>, <<"alice">>>>
    /\ files[NpyFile(<<"alice">>)] = NpyContent(1)
    /\ files[NpyFile(<<"alice", 1>>)] = NpyContent(2)

\* C7: a second ensure_encodings_from_folder right after a first returns 0 and
\* adds no artifact and no entry; a call returns a positive count when some
\* image with a face has no <stem>.npy.
C7_EnsureTwiceAddsNothing ==
    [][op' = "ensure_encodings_from_folder" =>
        /\ op = "ensure_encodings_from_folder" =>
            added' = 0 /\ files' = files /\ encodings' = encodings /\ writes' = <<>>
        /\ (\E f \in DOMAIN files :
                /\ Lower(f.ext) \in ImageExts
                /\ files[f].kind = "image"
                /\ files[f].encs # <<>>
                /\ NpyFile(f.stem) \notin DOMAIN files) => added' > 0]_vars

C7_Witness ==
    /\ op = "ensure_encodings_from_folder"
    /\ ensure_calls = 2
    /\ added = 0
    /\ \E f, g \in DOMAIN files :
        /\ f # g
        /\ f.stem = g.stem
        /\ files[f].kind = "image" /\ files[f].encs # <<>>
        /\ files[g].kind = "image" /\ files[g].encs # <<>>
        /\ NpyFile(f.stem) \in DOMAIN files

\* C8: _load reads encoding_file only when the directory holds no artifact,
\* loadable or not; when it reads a file it cannot deserialize, the gallery is
\* empty and nothing is raised.
C8_LegacyOnlyWithoutArtifacts ==
    (op = "load" /\ usedLegacy) =>
        /\ Artifacts(files) = {}
        /\ pickleFile.state = "corrupt" => (encodings = <<>> /\ ret = "None")

\* C9: add_face_from_image on an image without a face returns False and leaves
\* the gallery, the directory and encoding_file as they were; on an image with
\* faces it enrolls the first embedding and no other.
C9_NoFaceChangesNothing ==
    [][(op' = "add_face_from_image" /\ PathExists(files, arg'.path)
            /\ ReadPath(files, arg'.path).kind = "image") =>
        LET encs == ReadPath(files, arg'.path).encs
        IN /\ encs = <<>> =>
                /\ ret' = "False"
                /\ UNCHANGED <<files, encodings, pickleFile>>
           /\ encs # <<>> =>
                /\ ret' = "True"
                /\ files'[NpyFile(writes'[1].stem)] = NpyContent(encs[1])
                /\ Cardinality(DOMAIN files') = Cardinality(DOMAIN files) + 1
                /\ FlatEncs(encodings') \in
                        {[i \in 1..(Len(FlatEncs(encodings)) + 1) |->
                            IF i < k THEN FlatEncs(encodings)[i]
                            ELSE IF i = k THEN encs[1]
                            ELSE FlatEncs(encodings)[i - 1]]
                         : k \in 1..(Len(FlatEncs(encodings)) + 1)}]_vars

C9_Witness ==
    /\ op = "add_face_from_image"
    /\ ret = "False"
    /\ PathExists(files, arg.path)
    /\ ReadPath(files, arg.path) = Image(<<>>)
    /\ encodings # <<>>
    /\ pickleFile.state = "ok"

----------------------------------------------------------------------------
(* match, applied once to each input *)

StoreIdle ==
    /\ files = <<>>
    /\ pickleFile = Absent
    /\ encodings = <<>>
    /\ writes = <<>>
    /\ added = 0
    /\ usedLegacy = FALSE
    /\ ensure_calls = 0
    /\ arg = NoArg
    /\ ret = "None"

Coords == 0..MaxCoord

Tolerances == {DefaultTolerance - 1, DefaultTolerance, DefaultTolerance + 1}

MatchNames == {<<"alice">>, <<"bob">>}

InitMatch ==
    /\ StoreIdle
    /\ EncIdle
    /\ op = "construct"
    /\ tolerance \in Tolerances
    /\ query \in Coords
    /\ known_names \in UNION {[1..n -> MatchNames] : n \in 0..MaxGallery}
    /\ known_encodings \in [1..Len(known_names) -> Coords]
    /\ matches = <<>>
    /\ m_name = <<>>
    /\ m_dist = 0

Match ==
    /\ op = "construct"
    /\ LET r == MatchOp(tolerance, query, known_names, known_encodings)
       IN /\ m_name' = r.name
          /\ m_dist' = r.dist
          /\ matches' = r.matches
    /\ op' = "match"
    /\ UNCHANGED <<storeVars, encVars, arg, ret, tolerance, known_names, known_encodings, query>>

NextMatch == Match

SpecMatch == InitMatch /\ [][NextMatch]_vars

Least(ds) == CHOOSE d \in Range(ds) : \A x \in Range(ds) : d <= x

\* The lowest index among the entries at the least distance
FirstLeast(ds) ==
    CHOOSE i \in 1..Len(ds) : ds[i] = Least(ds) /\ \A j \in 1..(i - 1) : ds[j] > ds[i]

QueryDistances == [i \in 1..Len(known_encodings) |-> Abs(known_encodings[i] - query)]

\* C5: on a gallery that is not empty, match returns the name and distance of
\* an entry at the least distance exactly when that distance is <= tolerance,
\* and otherwise "Not recognized" with that distance; the flag of each entry is
\* TRUE exactly when its distance is <= tolerance.
C5_MatchAgreesWithTolerance ==
    (op = "match" /\ known_encodings # <<>>) =>
        LET ds == QueryDistances
        IN /\ m_dist = Least(ds)
           /\ Least(ds) <= tolerance =>
                \E i \in 1..Len(ds) : ds[i] = Least(ds) /\ m_name = known_names[i]
           /\ Least(ds) > tolerance => m_name = NotRecognized
           /\ \A i \in 1..Len(ds) : matches[i] <=> (ds[i] <= tolerance)

\* C10: match selects the lowest index among the entries at the least
\* distance: the distance it returns is that entry's, and a name it returns is
\* the name at that index.
C10_TieGoesToLowestIndex ==
    (op = "match" /\ known_encodings # <<>>) =>
        LET ds == QueryDistances
        IN /\ m_dist = ds[FirstLeast(ds)]
           /\ m_name # NotRecognized => m_name = known_names[FirstLeast(ds)]

C10_Witness ==
    /\ op = "match"
    /\ Len(known_encodings) = 2
    /\ known_encodings[1] # known_encodings[2]
    /\ QueryDistances[1] = QueryDistances[2]
    /\ known_names[1] # known_names[2]
    /\ m_name = known_names[1]

----------------------------------------------------------------------------
(* compute_encodings, applied once to each input *)

Regions == {<<0, 2, 2, 0>>, <<-1, 3, 3, -1>>, <<2, 2, 1, 0>>, <<0, 5, 2, 4>>}

InitEnc ==
    /\ StoreIdle
    /\ MatchIdle
    /\ op = "construct"
    /\ face_locations \in UNION {[1..n -> Regions] : n \in 0..MaxFaces}
    /\ primary = <<>>
    /\ fallback_called = FALSE
    /\ result = <<>>

ComputeEncodings ==
    /\ op = "construct"
    /\ \E models_ok \in BOOLEAN, wrapper_ok \in BOOLEAN,
          fails \in SUBSET (1..Len(face_locations)) :
        LET r == ComputeEncodingsOp(face_locations, ImageSize, ImageSize,
                                    models_ok, fails, wrapper_ok)
        IN /\ primary' = r.primary
           /\ fallback_called' = r.fallback_called
           /\ result' = r.result
    /\ op' = "compute_encodings"
    /\ UNCHANGED <<storeVars, matchVars, arg, ret, face_locations>>

NextEnc == ComputeEncodings

SpecEnc == InitEnc /\ [][NextEnc]_vars

AllNone(encs) == \A i \in 1..Len(encs) : encs[i] = None

\* C6: the fallback runs exactly when the primary path gave no result or only
\* None; then the result is the fallback's whole batch (one encoding per
\* region, or None for every region when it fails), and otherwise the result
\* is the primary path's, so no result holds encodings of both paths.
C6_FallbackIsAllOrNothing ==
    op = "compute_encodings" =>
        /\ fallback_called <=> (primary = <<>> \/ AllNone(primary))
        /\ ~fallback_called => result = primary
        /\ fallback_called =>
            \/ result = [i \in 1..Len(face_locations) |-> WrapperEncoding(face_locations[i])]
            \/ result = [i \in 1..Len(face_locations) |-> None]
        /\ ~\E i, j \in 1..Len(result) :
                result[i].by = "dlib" /\ result[j].by = "face_recognition"

C6_Witness ==
    /\ op = "compute_encodings"
    /\ Len(face_locations) = 3
    /\ primary[1] = None /\ primary[2].by = "dlib" /\ primary[3] = None
    /\ ~fallback_called
    /\ result = primary

====
